---- MODULE Spec2Model ----
(***************************************************************************)
(* State-machine model of the WindowSystem class of list-maker             *)
(* (validating revision): the window registry, position validation,       *)
(* z-order, minimize/restore, per-view position snapshots and the position *)
(* monitor, together with the rendered elements the class reads back.      *)
(***************************************************************************)
EXTENDS Integers, FiniteSets, Sequences, TLC

(***************************************************************************)
(* Program constants                                                       *)
(***************************************************************************)
HEADER_HEIGHT == 140

POSITION_CONSTRAINTS ==
    [minX |-> 0,
     minY |-> HEADER_HEIGHT + 10,
     maxXOffset |-> 100,
     maxYOffset |-> 100,
     minVisibleWidth |-> 50,
     minVisibleHeight |-> 30]

InitialMaxZIndex == 100
DefaultWidth == 350
DefaultHeight == 400
minWidth == 300
minHeight == 200
baseX == 100
margin == 20
maxAttempts == 20
DefaultElementZIndex == 100

(***************************************************************************)
(* Bounds of the model                                                     *)
(***************************************************************************)
\* number of calls made in one behaviour
MaxSteps == 4
\* number of calls made in one behaviour of the view-snapshot specification
MaxViewSteps == 5
\* number of events in one behaviour of the pointer specification
MaxPointerSteps == 5

\* window ids handed to the registry
Ids == {1, 2}
\* the callers create list windows under list ids and item windows under
\* item ids: the type passed to createWindow is a function of the id
TypeOf == (1 :> "list") @@ (2 :> "item")

Pos(x, y) == [x |-> x, y |-> y]
Size(w, h) == [width |-> w, height |-> h]

\* values of window.innerWidth / window.innerHeight
Viewports == {Size(1920, 1080), Size(800, 600), Size(40, 170)}
\* positions requested by callers (config.position, moveWindow arguments)
PosInputs == {Pos(5, 10), Pos(1900, 1070)}
\* sizes requested by callers (config.size, resizeWindow arguments)
SizeInputs == {Size(10, 10), Size(500, 450)}
\* view keys used by the callers of save/restorePositionsForView
ViewKeys == {"root"}
\* view keys restorePositionsForView is called with: a view entered for the
\* first time has no snapshot yet
RestoreKeys == ViewKeys \cup {"list-1"}

\* an optional property of a config object is <<>> when absent, <<v>> when set
Config(p, s, z) == [position |-> p, size |-> s, zIndex |-> z]
\* config objects passed to createWindow: each property on its own
Configs == {Config(<<>>, <<>>, <<>>),
            Config(<<Pos(5, 10)>>, <<>>, <<>>),
            Config(<<Pos(1900, 1070)>>, <<>>, <<>>),
            Config(<<>>, <<Size(10, 10)>>, <<>>),
            Config(<<>>, <<>>, <<105>>)}

(***************************************************************************)
(* State                                                                   *)
(***************************************************************************)
VARIABLES
    windows,          \* this.windows: id -> window config (a Map; DOMAIN = keys)
    maxZIndex,        \* this.maxZIndex
    minimizedWindows, \* this.minimizedWindows
    viewPositions,    \* this.viewPositions: viewKey -> (id -> saved entry)
    viewport,         \* window.innerWidth / window.innerHeight
    dom,              \* rendered .list-card elements: id -> inline style
    listPos,          \* AppController's mirror list.position, set by onWindowMoved
    listSize,         \* AppController's mirror list.size, set by onWindowResized
    draggedWindow,    \* this.draggedWindow: <<>> for null, <<[id, type]>> otherwise
    dragOffset,       \* this.dragOffset
    isResizing,       \* this.isResizing
    resizeData,       \* this.resizeData: <<>> for null
    last,             \* the last call made and its arguments
    pre,              \* the registry (this.windows) as it was before that call
    steps,            \* number of calls made so far
    stale,            \* saved entries <<viewKey, id>> whose window was destroyed since
    fin,              \* inputs of the pure functions under check
    fout,             \* their results
    facc,             \* result of isPositionAccessible on the same input
    currentView,      \* AppController.currentView: "root" or "zoomed"
    zoomedListId,     \* AppController.zoomedListId: 0 for null
    zoomedItemId,     \* AppController.zoomedItemId: 0 for null
    navigationPath,   \* AppController.navigationPath: the ids of its entries
    lists,            \* ListEngine.lists: the ids of the lists, in array order
    sublistItems,     \* the items whose type is 'sublist'
    timers,           \* view keys of the pending setTimeout restore callbacks
    hooks,            \* the save / restore hooks the last AppController call made
    rendered,         \* <<registry>> before the last render() of the current view
    windowKeys,       \* the keys of this.windows in the Map's insertion order
    listMakerLists    \* legacy ListMaker.lists: the position of each list, in array order

sysVars == <<windows, maxZIndex, minimizedWindows, viewPositions, viewport,
             dom, listPos, listSize>>
pointerVars == <<draggedWindow, dragOffset, isResizing, resizeData>>
histVars == <<last, pre, steps, stale>>
funVars == <<fin, fout, facc>>
viewVars == <<currentView, zoomedListId, zoomedItemId, navigationPath>>
navVars == <<viewVars, lists, sublistItems, timers, hooks, rendered>>
vars == <<sysVars, pointerVars, histVars, funVars, navVars, windowKeys, listMakerLists>>

Has(id) == id \in DOMAIN windows
HasElement(id) == id \in DOMAIN dom

\* Map.set / Map.delete on a function whose domain is the key set
MapSet(m, k, v) == [i \in (DOMAIN m) \cup {k} |-> IF i = k THEN v ELSE m[i]]
MapDelete(m, k) == [i \in (DOMAIN m) \ {k} |-> m[i]]

\* the insertion order of a Map after a call: deleted keys leave, a key that
\* is set again keeps its place, new keys go to the end (ascending when one
\* call adds several, which is the order the renderers create them in)
RECURSIVE ascending(_)
ascending(S) ==
    IF S = {} THEN <<>>
    ELSE LET least == CHOOSE i \in S : \A j \in S : i <= j
         IN  <<least>> \o ascending(S \ {least})

keysAfter(keys, m) ==
    SelectSeq(keys, LAMBDA k : k \in DOMAIN m)
        \o ascending(DOMAIN m \ {keys[k] : k \in 1..Len(keys)})

Call(op, id, a, b, ok, key) ==
    [op |-> op, id |-> id, a |-> a, b |-> b, ok |-> ok, key |-> key]
\* the registry as it was when the call was made
PreOf(id) == windows

(***************************************************************************)
(* Position validation                                                     *)
(***************************************************************************)
\* validatePosition with the viewport passed explicitly
validatePositionIn(x, y, vp) ==
    LET c == POSITION_CONSTRAINTS
        maxX == vp.width - c.minVisibleWidth
        maxY == vp.height - c.minVisibleHeight
        validX == IF x < c.minX THEN c.minX ELSE IF x > maxX THEN maxX ELSE x
        validY == IF y < c.minY THEN c.minY ELSE IF y > maxY THEN maxY ELSE y
    IN  Pos(validX, validY)

\* width and height are accepted and never used by the code
validatePosition(x, y, width, height) == validatePositionIn(x, y, viewport)

constrainPosition(x, y, width, height) == validatePosition(x, y, width, height)

\* isPositionAccessible without the header test
isPositionAccessibleIn_noHeader(x, y, vp) ==
    LET c == POSITION_CONSTRAINTS
    IN  /\ x >= c.minX
        /\ x <= vp.width - c.minVisibleWidth
        /\ y <= vp.height - c.minVisibleHeight

isPositionAccessibleIn(x, y, vp) ==
    LET c == POSITION_CONSTRAINTS
    IN  /\ y >= c.minY
        /\ x >= c.minX
        /\ x <= vp.width - c.minVisibleWidth
        /\ y <= vp.height - c.minVisibleHeight

isPositionAccessible(x, y) == isPositionAccessibleIn(x, y, viewport)

(***************************************************************************)
(* Smart placement                                                         *)
(***************************************************************************)
candidate(attempt) ==
    Pos(baseX + (attempt % 5) * 30, HEADER_HEIGHT + (attempt \div 5) * 30)

\* the overlap test of getSmartPosition for one existing window position
overlapsWindow(c, p) ==
    ~ (\/ c.x > p.x + DefaultWidth + margin
       \/ c.x + DefaultWidth < p.x - margin
       \/ c.y > p.y + DefaultHeight + margin
       \/ c.y + DefaultHeight < p.y - margin)

overlaps(c, wins) == \E i \in DOMAIN wins : overlapsWindow(c, wins[i].position)

getSmartPositionFor(wins) ==
    IF DOMAIN wins = {} THEN Pos(baseX, HEADER_HEIGHT)
    ELSE LET free == {a \in 0..(maxAttempts - 1) : ~overlaps(candidate(a), wins)}
         IN  IF free # {}
             THEN candidate(CHOOSE a \in free : \A b \in free : a <= b)
             ELSE LET fallbackOffset == Cardinality(DOMAIN wins) * 30
                  IN  Pos(baseX + fallbackOffset, HEADER_HEIGHT + fallbackOffset)

getSmartPosition == getSmartPositionFor(windows)

(***************************************************************************)
(* Rendered elements                                                       *)
(***************************************************************************)
\* offsetLeft/Top/Width/Height of an element: 0 while it is display:none
offsetLeft(e) == IF e.display = "none" THEN 0 ELSE e.left
offsetTop(e) == IF e.display = "none" THEN 0 ELSE e.top
offsetWidth(e) == IF e.display = "none" THEN 0 ELSE e.width
offsetHeight(e) == IF e.display = "none" THEN 0 ELSE e.height
\* parseInt(element.style.zIndex) || 100
parsedZIndex(e) == IF e.zIndex = 0 THEN DefaultElementZIndex ELSE e.zIndex

\* the record fields the capture functions read back from an element
capturedFrom(w, e) ==
    [w EXCEPT !.position = Pos(offsetLeft(e), offsetTop(e)),
              !.size = Size(offsetWidth(e), offsetHeight(e)),
              !.zIndex = parsedZIndex(e)]

(***************************************************************************)
(* Initial state: the state after the constructor                          *)
(***************************************************************************)
NoCall == Call("init", 0, 0, 0, FALSE, "")

\* the hooks of one AppController call: the key of the view it left, the key
\* of the view it ended in, the keys it saved and the keys it scheduled a
\* restore for, in call order
Hooks(left, entered, saves, restores) ==
    [left |-> left, entered |-> entered, saves |-> saves, restores |-> restores]

NoHooks == Hooks("", "", <<>>, <<>>)

\* AppController before any list exists
InitApp ==
    /\ currentView = "root"
    /\ zoomedListId = 0
    /\ zoomedItemId = 0
    /\ navigationPath = <<>>
    /\ lists = <<>>
    /\ sublistItems = {}
    /\ timers = <<>>
    /\ hooks = NoHooks
    /\ rendered = <<>>

InitSys ==
    /\ InitApp
    /\ windowKeys = <<>>
    /\ windows = <<>>
    /\ maxZIndex = InitialMaxZIndex
    /\ minimizedWindows = {}
    /\ viewPositions = <<>>
    /\ dom = <<>>
    /\ listPos = <<>>
    /\ listSize = <<>>
    /\ draggedWindow = <<>>
    /\ dragOffset = Pos(0, 0)
    /\ isResizing = FALSE
    /\ resizeData = <<>>
    /\ last = NoCall
    /\ pre = <<>>
    /\ steps = 0
    /\ stale = {}

Init ==
    /\ InitSys
    /\ listMakerLists = <<>>
    /\ viewport = Size(1920, 1080)
    /\ fin = <<>>
    /\ fout = <<>>
    /\ facc = <<>>

(***************************************************************************)
(* Window lifecycle                                                        *)
(***************************************************************************)
\* the object literal of createWindow: the computed fields, then ...config
windowConfig(type, validPosition, proposedSize, z, config) ==
    [type |-> type,
     position |-> IF Len(config.position) > 0 THEN config.position[1] ELSE validPosition,
     size |-> IF Len(config.size) > 0 THEN config.size[1] ELSE proposedSize,
     zIndex |-> IF Len(config.zIndex) > 0 THEN config.zIndex[1] ELSE z,
     minimized |-> FALSE]

\* config.zIndex || this.maxZIndex++ takes the counter when zIndex is absent or 0
takesCounter(config) == Len(config.zIndex) = 0 \/ config.zIndex[1] = 0

proposedPositionOf(config) ==
    IF Len(config.position) > 0 THEN config.position[1] ELSE getSmartPosition

createWindow(id, type, config) ==
    LET proposedPosition == proposedPositionOf(config)
        proposedSize == IF Len(config.size) > 0 THEN config.size[1]
                        ELSE Size(DefaultWidth, DefaultHeight)
        validPosition == validatePosition(proposedPosition.x, proposedPosition.y,
                                          proposedSize.width, proposedSize.height)
    IN  /\ windows' = MapSet(windows, id,
                             windowConfig(type, validPosition, proposedSize, maxZIndex, config))
        /\ maxZIndex' = IF takesCounter(config) THEN maxZIndex + 1 ELSE maxZIndex
        /\ last' = Call("createWindow", id, proposedPosition.x, proposedPosition.y,
                        Len(config.position) > 0, "")
        /\ pre' = PreOf(id)
        /\ UNCHANGED <<minimizedWindows, viewPositions, viewport, dom, listPos, listSize>>

\* a call with an absent id that still advances the z-order counter
absentCall_counting(op, id) ==
    /\ ~Has(id)
    /\ last' = Call(op, id, 0, 0, FALSE, "")
    /\ pre' = windows
    /\ maxZIndex' = maxZIndex + 1
    /\ UNCHANGED <<windows, minimizedWindows, viewPositions, viewport, dom,
                   listPos, listSize>>

\* a call of a mutator with an id that is not in the registry returns false
absentCall(op, id) ==
    /\ ~Has(id)
    /\ last' = Call(op, id, 0, 0, FALSE, "")
    /\ pre' = windows
    /\ UNCHANGED sysVars

\* destroyWindow leaving the id in minimizedWindows
destroyWindow_keepsMinimized(id) ==
    \/ absentCall("destroyWindow", id)
    \/ /\ Has(id)
       /\ windows' = MapDelete(windows, id)
       /\ dom' = MapDelete(dom, id)
       /\ last' = Call("destroyWindow", id, 0, 0, TRUE, "")
       /\ pre' = PreOf(id)
       /\ UNCHANGED <<maxZIndex, minimizedWindows, viewPositions, viewport,
                      listPos, listSize>>

destroyWindow(id) ==
    \/ absentCall("destroyWindow", id)
    \/ /\ Has(id)
       /\ windows' = MapDelete(windows, id)
       /\ minimizedWindows' = minimizedWindows \ {id}
       /\ dom' = MapDelete(dom, id)
       /\ last' = Call("destroyWindow", id, 0, 0, TRUE, "")
       /\ pre' = PreOf(id)
       /\ UNCHANGED <<maxZIndex, viewPositions, viewport, listPos, listSize>>

(***************************************************************************)
(* Positioning and sizing                                                  *)
(***************************************************************************)
\* moveWindow storing the requested position without validating it
movedWindow_requested(w, x, y, vp) ==
    [w EXCEPT !.position = Pos(x, y)]

\* the record after moveWindow(id, x, y) under viewport vp
movedWindow(w, x, y, vp) ==
    [w EXCEPT !.position = validatePositionIn(x, y, vp)]

\* element.style.left / top written by moveWindow
movedElement(e, p) == [e EXCEPT !.left = p.x, !.top = p.y]

\* the onWindowMoved callback installed by AppController.setupWindowCallbacks
onWindowMoved(lp, id, type, p) == IF type = "list" THEN MapSet(lp, id, p) ELSE lp

\* the onWindowResized callback installed by AppController.setupWindowCallbacks
onWindowResized(ls, id, type, s) == IF type = "list" THEN MapSet(ls, id, s) ELSE ls

\* the writes of moveWindow(id, x, y) for an id of the registry
applyMove(id, x, y) ==
    LET w == movedWindow(windows[id], x, y, viewport)
    IN  /\ windows' = [windows EXCEPT ![id] = w]
        /\ dom' = IF HasElement(id)
                  THEN [dom EXCEPT ![id] = movedElement(@, w.position)]
                  ELSE dom
        /\ listPos' = onWindowMoved(listPos, id, w.type, w.position)

moveWindow(id, x, y) ==
    \/ absentCall("moveWindow", id)
    \/ /\ Has(id)
       /\ applyMove(id, x, y)
       /\ last' = Call("moveWindow", id, x, y, TRUE, "")
       /\ pre' = PreOf(id)
       /\ UNCHANGED <<maxZIndex, minimizedWindows, viewPositions, viewport, listSize>>

\* resizeWindow storing the requested size without the floors
resizedSize_unclamped(width, height) == Size(width, height)

resizedSize(width, height) ==
    Size(IF width > minWidth THEN width ELSE minWidth,
         IF height > minHeight THEN height ELSE minHeight)

\* the writes of resizeWindow(id, width, height) for an id of the registry
applyResize(id, width, height) ==
    LET s == resizedSize(width, height)
    IN  /\ windows' = [windows EXCEPT ![id].size = s]
        /\ dom' = IF HasElement(id)
                  THEN [dom EXCEPT ![id].width = s.width, ![id].height = s.height]
                  ELSE dom
        /\ listSize' = onWindowResized(listSize, id, windows[id].type, s)

resizeWindow(id, width, height) ==
    \/ absentCall("resizeWindow", id)
    \/ /\ Has(id)
       /\ applyResize(id, width, height)
       /\ last' = Call("resizeWindow", id, width, height, TRUE, "")
       /\ pre' = PreOf(id)
       /\ UNCHANGED <<maxZIndex, minimizedWindows, viewPositions, viewport, listPos>>

(***************************************************************************)
(* Z-index management                                                      *)
(***************************************************************************)
\* window.zIndex = ++this.maxZIndex
frontZIndex(z) == z + 1

bringToFront(id) ==
    \/ absentCall("bringToFront", id)
    \/ /\ Has(id)
       /\ maxZIndex' = frontZIndex(maxZIndex)
       /\ windows' = [windows EXCEPT ![id].zIndex = frontZIndex(maxZIndex)]
       /\ dom' = IF HasElement(id)
                 THEN [dom EXCEPT ![id].zIndex = frontZIndex(maxZIndex)]
                 ELSE dom
       /\ last' = Call("bringToFront", id, 0, 0, TRUE, "")
       /\ pre' = PreOf(id)
       /\ UNCHANGED <<minimizedWindows, viewPositions, viewport, listPos, listSize>>

(***************************************************************************)
(* Minimize / restore                                                      *)
(***************************************************************************)
\* captureWindowState: the record is overwritten from the element when there is one
captureWindowState(w, id) ==
    IF HasElement(id) THEN capturedFrom(w, dom[id]) ELSE w

minimizeWindow(id) ==
    \/ absentCall("minimizeWindow", id)
    \/ /\ Has(id)
       /\ windows' = [windows EXCEPT
                         ![id] = captureWindowState([@ EXCEPT !.minimized = TRUE], id)]
       /\ minimizedWindows' = minimizedWindows \cup {id}
       /\ dom' = IF HasElement(id) THEN [dom EXCEPT ![id].display = "none"] ELSE dom
       /\ last' = Call("minimizeWindow", id, 0, 0, TRUE, "")
       /\ pre' = PreOf(id)
       /\ UNCHANGED <<maxZIndex, viewPositions, viewport, listPos, listSize>>

\* the position restoreWindow stores before it shows the window
restoredPosition(w, vp) ==
    validatePositionIn(w.position.x, w.position.y, vp)

restoreWindow(id) ==
    \/ absentCall("restoreWindow", id)
    \/ /\ Has(id)
       /\ LET validPosition == restoredPosition(windows[id], viewport)
              w == [windows[id] EXCEPT !.position = validPosition,
                                       !.minimized = FALSE,
                                       !.zIndex = frontZIndex(maxZIndex)]
          IN  /\ windows' = [windows EXCEPT ![id] = w]
              /\ dom' = IF HasElement(id)
                        THEN [dom EXCEPT ![id] =
                                 [left |-> validPosition.x, top |-> validPosition.y,
                                  width |-> w.size.width, height |-> w.size.height,
                                  zIndex |-> w.zIndex, display |-> ""]]
                        ELSE dom
       /\ minimizedWindows' = minimizedWindows \ {id}
       /\ maxZIndex' = frontZIndex(maxZIndex)
       /\ last' = Call("restoreWindow", id, 0, 0, TRUE, "")
       /\ pre' = PreOf(id)
       /\ UNCHANGED <<viewPositions, viewport, listPos, listSize>>

(***************************************************************************)
(* Spatial stability system                                                *)
(***************************************************************************)
\* captureAllSpatialState: every rendered card overwrites its non-minimized record
capturedAll(wins, d) ==
    [i \in DOMAIN wins |->
        IF i \in DOMAIN d /\ ~wins[i].minimized THEN capturedFrom(wins[i], d[i])
        ELSE wins[i]]

captureAllSpatialState ==
    /\ windows' = capturedAll(windows, dom)
    /\ last' = Call("captureAllSpatialState", 0, 0, 0, TRUE, "")
    /\ pre' = windows
    /\ UNCHANGED <<maxZIndex, minimizedWindows, viewPositions, viewport, dom,
                   listPos, listSize>>

(***************************************************************************)
(* View-specific position management                                       *)
(***************************************************************************)
Entry(x, y, w, h, z) == [x |-> x, y |-> y, width |-> w, height |-> h, zIndex |-> z]

\* the entry savePositionsForView records for one non-minimized window
savedEntry(w, id) ==
    IF HasElement(id)
    THEN Entry(offsetLeft(dom[id]), offsetTop(dom[id]),
               offsetWidth(dom[id]), offsetHeight(dom[id]), parsedZIndex(dom[id]))
    ELSE Entry(w.position.x, w.position.y, w.size.width, w.size.height, w.zIndex)

savedPositions ==
    [i \in {j \in DOMAIN windows : ~windows[j].minimized} |-> savedEntry(windows[i], i)]

\* savePositionsForView called for each of the keys in turn, with no change
\* of the registry or of the cards in between
RECURSIVE savedUnder(_, _)
savedUnder(vps, keys) ==
    IF keys = <<>> THEN vps
    ELSE savedUnder(MapSet(vps, Head(keys), savedPositions), Tail(keys))

savePositionsForView(viewKey) ==
    /\ viewPositions' = MapSet(viewPositions, viewKey, savedPositions)
    /\ last' = Call("savePositionsForView", 0, 0, 0, TRUE, viewKey)
    /\ pre' = windows
    /\ UNCHANGED <<windows, maxZIndex, minimizedWindows, viewport, dom, listPos, listSize>>

\* restorePositionsForView applying the saved x, y without validating them
restoredFrom_unvalidated(w, savedPos, vp) ==
    [w EXCEPT !.position = Pos(savedPos.x, savedPos.y),
              !.size = Size(savedPos.width, savedPos.height),
              !.zIndex = savedPos.zIndex]

\* the record restorePositionsForView writes from a saved entry
restoredFrom(w, savedPos, vp) ==
    [w EXCEPT !.position = validatePositionIn(savedPos.x, savedPos.y, vp),
              !.size = Size(savedPos.width, savedPos.height),
              !.zIndex = savedPos.zIndex]

restoredElement(e, w) ==
    [e EXCEPT !.left = w.position.x, !.top = w.position.y,
              !.width = w.size.width, !.height = w.size.height,
              !.zIndex = w.zIndex]

\* the ids restorePositionsForView applies a saved entry to
restorable(positions) == {i \in DOMAIN positions : Has(i) /\ ~windows[i].minimized}

\* restorePositionsForView opening an empty snapshot for a key it does not know
restorePositionsForView_opening(viewKey) ==
    /\ viewPositions' = IF viewKey \in DOMAIN viewPositions THEN viewPositions
                        ELSE MapSet(viewPositions, viewKey, <<>>)
    /\ last' = Call("restorePositionsForView", 0, 0, 0,
                    viewKey \in DOMAIN viewPositions, viewKey)
    /\ pre' = windows
    /\ UNCHANGED <<windows, dom, maxZIndex, minimizedWindows, viewport, listPos, listSize>>

restorePositionsForView(viewKey) ==
    /\ IF viewKey \in DOMAIN viewPositions
       THEN LET positions == viewPositions[viewKey]
                R == restorable(positions)
            IN  /\ windows' = [i \in DOMAIN windows |->
                                  IF i \in R
                                  THEN restoredFrom(windows[i], positions[i], viewport)
                                  ELSE windows[i]]
                /\ dom' = [i \in DOMAIN dom |->
                              IF i \in R
                              THEN restoredElement(dom[i],
                                      restoredFrom(windows[i], positions[i], viewport))
                              ELSE dom[i]]
       ELSE UNCHANGED <<windows, dom>>
    /\ last' = Call("restorePositionsForView", 0, 0, 0,
                    viewKey \in DOMAIN viewPositions, viewKey)
    /\ pre' = windows
    /\ UNCHANGED <<maxZIndex, minimizedWindows, viewPositions, viewport, listPos, listSize>>

\* an id inside a template literal; null (0 here) prints as "null"
formatId(v) == IF v = 0 THEN "null" ELSE ToString(v)

\* generateViewKey joining the two ids without a separator
generateViewKey_unseparated(view, listId, itemId) ==
    IF view = "root" THEN "root"
    ELSE IF view = "zoomed"
         THEN IF itemId # 0
              THEN "list-" \o formatId(listId) \o formatId(itemId)
              ELSE "list-" \o formatId(listId)
         ELSE "unknown"

generateViewKey(view, listId, itemId) ==
    IF view = "root" THEN "root"
    ELSE IF view = "zoomed"
         THEN IF itemId # 0
              THEN "list-" \o formatId(listId) \o "-item-" \o formatId(itemId)
              ELSE "list-" \o formatId(listId)
         ELSE "unknown"

(***************************************************************************)
(* Position monitor                                                        *)
(***************************************************************************)
\* the windows fixStuckWindows corrects under viewport vp
stuck(wins, vp) ==
    {i \in DOMAIN wins :
        validatePositionIn(wins[i].position.x, wins[i].position.y, vp) # wins[i].position}

\* moveWindow(id, p.x, p.y) applied to every id of S, p the validated position
movedAll(wins, S, vp) ==
    [i \in DOMAIN wins |->
        IF i \in S
        THEN LET p == validatePositionIn(wins[i].position.x, wins[i].position.y, vp)
             IN  movedWindow(wins[i], p.x, p.y, vp)
        ELSE wins[i]]

movedAllElements(d, wins, S) ==
    [i \in DOMAIN d |-> IF i \in S THEN movedElement(d[i], wins[i].position) ELSE d[i]]

movedAllMirrors(lp, wins, S) ==
    [i \in (DOMAIN lp) \cup {j \in S : wins[j].type = "list"} |->
        IF i \in S /\ wins[i].type = "list" THEN wins[i].position ELSE lp[i]]

\* the body of fixStuckWindows: moveWindow to the validated position for every
\* window whose position differs from it
applyFixes ==
    LET S == stuck(windows, viewport)
        wins == movedAll(windows, S, viewport)
    IN  /\ windows' = wins
        /\ dom' = movedAllElements(dom, wins, S)
        /\ listPos' = movedAllMirrors(listPos, wins, S)

fixStuckWindows ==
    /\ applyFixes
    /\ last' = Call("fixStuckWindows", 0, Cardinality(stuck(windows, viewport)), 0, TRUE, "")
    /\ pre' = windows
    /\ UNCHANGED <<maxZIndex, minimizedWindows, viewPositions, viewport, listSize>>

\* window.innerWidth / window.innerHeight as read inside the forEach callback of
\* scanForPositionIssues: the callback's parameter is named window, so the
\* property is looked up on the window record, which has none (undefined)
recordInner(w) == <<>>

\* v > inner - offset, false when inner is undefined (the difference is NaN)
exceedsInner(v, inner, offset) ==
    IF inner = <<>> THEN FALSE ELSE v > inner[1] - offset

\* the issues scanForPositionIssues reports, as <<id, type>> pairs
scanForPositionIssues(wins) ==
    LET c == POSITION_CONSTRAINTS
    IN  {<<i, "behind_header">> : i \in {j \in DOMAIN wins : wins[j].position.y < c.minY}}
        \cup {<<i, "left_edge">> : i \in {j \in DOMAIN wins : wins[j].position.x < c.minX}}
        \cup {<<i, "right_edge">> : i \in {j \in DOMAIN wins :
                 exceedsInner(wins[j].position.x, recordInner(wins[j]), c.minVisibleWidth)}}
        \cup {<<i, "bottom_edge">> : i \in {j \in DOMAIN wins :
                 exceedsInner(wins[j].position.y, recordInner(wins[j]), c.minVisibleHeight)}}

\* the interval callback of initPositionMonitoring
monitorTick ==
    LET issues == scanForPositionIssues(windows)
    IN  /\ IF issues # {} THEN applyFixes ELSE UNCHANGED <<windows, dom, listPos>>
        /\ last' = Call("monitorTick", 0, Cardinality(issues), 0, issues # {}, "")
        /\ pre' = windows
        /\ UNCHANGED <<maxZIndex, minimizedWindows, viewPositions, viewport, listSize>>

\* the resize listener of bindResizeHandler, run when the viewport becomes vp
viewportResize(vp) ==
    LET S == stuck(windows, vp)
        wins == movedAll(windows, S, vp)
    IN  /\ vp # viewport
        /\ viewport' = vp
        /\ windows' = wins
        /\ dom' = movedAllElements(dom, wins, S)
        /\ listPos' = movedAllMirrors(listPos, wins, S)
        /\ last' = Call("viewportResize", 0, vp.width, vp.height,
                        vp.width <= viewport.width /\ vp.height <= viewport.height, "")
        /\ pre' = windows
        /\ UNCHANGED <<maxZIndex, minimizedWindows, viewPositions, listSize>>

(***************************************************************************)
(* Rendering by AppController                                              *)
(***************************************************************************)
\* the inline style renderList writes for a list window (renderRootView hides
\* the card of a minimized window)
listElement(w) ==
    [left |-> w.position.x, top |-> w.position.y,
     width |-> w.size.width, height |-> w.size.height,
     zIndex |-> IF w.zIndex = 0 THEN DefaultElementZIndex ELSE w.zIndex,
     display |-> IF w.minimized THEN "none" ELSE ""]

renderList(id) ==
    /\ Has(id)
    /\ windows[id].type = "list"
    /\ dom' = MapSet(dom, id, listElement(windows[id]))
    /\ last' = Call("renderList", id, 0, 0, TRUE, "")
    /\ pre' = PreOf(id)
    /\ UNCHANGED <<windows, maxZIndex, minimizedWindows, viewPositions, viewport,
                   listPos, listSize>>

\* AppController.handleCreateList for a new list id: createWindow with the smart
\* position as config.position, renderNewList, bringToFront
handleCreateList(id) ==
    LET position == getSmartPosition
        size == Size(DefaultWidth, DefaultHeight)
        created == windowConfig("list",
                                validatePosition(position.x, position.y,
                                                 size.width, size.height),
                                size, maxZIndex, Config(<<position>>, <<size>>, <<>>))
        w == [created EXCEPT !.zIndex = frontZIndex(maxZIndex + 1)]
    IN  /\ ~Has(id)
        /\ TypeOf[id] = "list"
        /\ windows' = MapSet(windows, id, w)
        /\ maxZIndex' = frontZIndex(maxZIndex + 1)
        /\ dom' = MapSet(dom, id, listElement(w))
        /\ last' = Call("handleCreateList", id, position.x, position.y, TRUE, "")
        /\ pre' = windows
        /\ UNCHANGED <<minimizedWindows, viewPositions, viewport, listPos, listSize>>

(***************************************************************************)
(* Pointer events                                                          *)
(***************************************************************************)
\* clientX / clientY of the pointer events
PointerInputs == {Pos(110, 160), Pos(15, 20), Pos(1895, 1065)}
\* e.target of a mousedown inside a card
Targets == {"list-header", "resize-handle", "list-body"}

\* the pointer is over a displayed card (the container starts at the origin)
underPointer(e, cx, cy) ==
    /\ e.display # "none"
    /\ cx >= e.left /\ cx <= e.left + e.width
    /\ cy >= e.top /\ cy <= e.top + e.height

\* mousedown on the card of id: bringToFront, then a resize session for the
\* resize handle, a drag session for the header
handleMouseDown(id, target, cx, cy) ==
    /\ HasElement(id)
    /\ underPointer(dom[id], cx, cy)
    /\ LET z == IF Has(id) THEN frontZIndex(maxZIndex) ELSE maxZIndex
           raised == IF Has(id) THEN [dom EXCEPT ![id].zIndex = z] ELSE dom
       IN  /\ maxZIndex' = z
           /\ windows' = IF Has(id) THEN [windows EXCEPT ![id].zIndex = z] ELSE windows
           /\ CASE target = "resize-handle" ->
                     /\ isResizing' = TRUE
                     /\ resizeData' = <<[id |-> id, startX |-> cx, startY |-> cy,
                                         startWidth |-> offsetWidth(dom[id]),
                                         startHeight |-> offsetHeight(dom[id])]>>
                     /\ dom' = raised
                     /\ UNCHANGED <<draggedWindow, dragOffset>>
                [] target = "list-header" ->
                     /\ draggedWindow' = <<[id |-> id, type |-> "list"]>>
                     /\ dragOffset' = Pos(cx - dom[id].left, cy - dom[id].top)
                     /\ dom' = [raised EXCEPT ![id].zIndex = z + 1000]
                     /\ UNCHANGED <<isResizing, resizeData>>
                [] OTHER ->
                     /\ dom' = raised
                     /\ UNCHANGED pointerVars
    /\ last' = Call("handleMouseDown", id, cx, cy, TRUE, target)
    /\ pre' = windows
    /\ UNCHANGED <<minimizedWindows, viewPositions, viewport, listPos, listSize>>

\* mousemove: resizeWindow while resizing, else moveWindow while dragging
handleMouseMove(cx, cy) ==
    /\ IF isResizing /\ resizeData # <<>>
       THEN LET rd == resizeData[1]
                newWidth == IF rd.startWidth + (cx - rd.startX) > minWidth
                            THEN rd.startWidth + (cx - rd.startX) ELSE minWidth
                newHeight == IF rd.startHeight + (cy - rd.startY) > minHeight
                             THEN rd.startHeight + (cy - rd.startY) ELSE minHeight
            IN  /\ IF Has(rd.id) THEN applyResize(rd.id, newWidth, newHeight)
                   ELSE UNCHANGED <<windows, dom, listSize>>
                /\ last' = Call("handleMouseMove", rd.id, cx, cy, Has(rd.id), "resize")
                /\ UNCHANGED listPos
       ELSE IF draggedWindow # <<>>
       THEN LET dw == draggedWindow[1]
            IN  /\ IF Has(dw.id)
                   THEN applyMove(dw.id, cx - dragOffset.x, cy - dragOffset.y)
                   ELSE UNCHANGED <<windows, dom, listPos>>
                /\ last' = Call("handleMouseMove", dw.id, cx, cy, Has(dw.id), "drag")
                /\ UNCHANGED listSize
       ELSE /\ last' = Call("handleMouseMove", 0, cx, cy, FALSE, "")
            /\ UNCHANGED <<windows, dom, listPos, listSize>>
    /\ pre' = windows
    /\ UNCHANGED <<maxZIndex, minimizedWindows, viewPositions, viewport, pointerVars>>

\* a mouseup that ends the sessions only while the dragged window is registered
handleMouseUp_perWindow ==
    /\ IF draggedWindow # <<>> /\ Has(draggedWindow[1].id)
       THEN LET id == draggedWindow[1].id
            IN  /\ maxZIndex' = frontZIndex(maxZIndex)
                /\ windows' = [windows EXCEPT ![id].zIndex = frontZIndex(maxZIndex)]
                /\ dom' = IF HasElement(id)
                          THEN [dom EXCEPT ![id].zIndex = frontZIndex(maxZIndex)]
                          ELSE dom
                /\ draggedWindow' = <<>>
       ELSE UNCHANGED <<maxZIndex, windows, dom, draggedWindow>>
    /\ isResizing' = FALSE
    /\ resizeData' = <<>>
    /\ last' = Call("handleMouseUp", IF draggedWindow # <<>> THEN draggedWindow[1].id ELSE 0,
                    0, 0, draggedWindow # <<>> \/ isResizing, "")
    /\ pre' = windows
    /\ UNCHANGED <<minimizedWindows, viewPositions, viewport, listPos, listSize, dragOffset>>

\* mouseup: bringToFront the dragged window and end both sessions
handleMouseUp ==
    /\ IF draggedWindow # <<>> /\ Has(draggedWindow[1].id)
       THEN LET id == draggedWindow[1].id
            IN  /\ maxZIndex' = frontZIndex(maxZIndex)
                /\ windows' = [windows EXCEPT ![id].zIndex = frontZIndex(maxZIndex)]
                /\ dom' = IF HasElement(id)
                          THEN [dom EXCEPT ![id].zIndex = frontZIndex(maxZIndex)]
                          ELSE dom
       ELSE UNCHANGED <<maxZIndex, windows, dom>>
    /\ draggedWindow' = <<>>
    /\ isResizing' = FALSE
    /\ resizeData' = <<>>
    /\ last' = Call("handleMouseUp", IF draggedWindow # <<>> THEN draggedWindow[1].id ELSE 0,
                    0, 0, draggedWindow # <<>> \/ isResizing, "")
    /\ pre' = windows
    /\ UNCHANGED <<minimizedWindows, viewPositions, viewport, listPos, listSize, dragOffset>>

(***************************************************************************)
(* Specification                                                           *)
(***************************************************************************)
\* the saved entries that outlived their window: an entry becomes stale when
\* destroyWindow removes its window and is replaced when its view is saved again
staleAfter(call) ==
    IF call.op = "destroyWindow" /\ call.ok
    THEN stale \cup {<<k, call.id>> : k \in {j \in DOMAIN viewPositions :
                                                call.id \in DOMAIN viewPositions[j]}}
    ELSE IF call.op = "savePositionsForView"
         THEN {e \in stale : e[1] # call.key}
         ELSE stale

Next ==
    /\ steps < MaxSteps
    /\ steps' = steps + 1
    /\ UNCHANGED <<pointerVars, funVars, navVars>>
    /\ \/ \E id \in Ids, config \in Configs : createWindow(id, TypeOf[id], config)
       \/ \E id \in Ids : destroyWindow(id)
       \/ \E id \in Ids, p \in PosInputs : moveWindow(id, p.x, p.y)
       \/ \E id \in Ids, s \in SizeInputs : resizeWindow(id, s.width, s.height)
       \/ \E id \in Ids : bringToFront(id)
       \/ \E id \in Ids : minimizeWindow(id)
       \/ \E id \in Ids : restoreWindow(id)
       \/ captureAllSpatialState
       \/ \E k \in ViewKeys : savePositionsForView(k)
       \/ \E k \in RestoreKeys : restorePositionsForView(k)
       \/ fixStuckWindows
       \/ monitorTick
       \/ \E vp \in Viewports : viewportResize(vp)
       \/ \E id \in Ids : renderList(id)
       \/ \E id \in Ids : handleCreateList(id)
    /\ stale' = staleAfter(last')
    /\ windowKeys' = keysAfter(windowKeys, windows')
    /\ UNCHANGED listMakerLists

Spec == Init /\ [][Next]_vars

\* the registry and the view snapshots alone, over longer behaviours
NextViews ==
    /\ steps < MaxViewSteps
    /\ steps' = steps + 1
    /\ UNCHANGED <<pointerVars, funVars, navVars>>
    /\ \/ \E id \in Ids, config \in Configs : createWindow(id, TypeOf[id], config)
       \/ \E id \in Ids : destroyWindow(id)
       \/ \E k \in ViewKeys : savePositionsForView(k)
       \/ \E k \in ViewKeys : restorePositionsForView(k)
       \/ \E vp \in Viewports : viewportResize(vp)
    /\ stale' = staleAfter(last')
    /\ windowKeys' = keysAfter(windowKeys, windows')
    /\ UNCHANGED listMakerLists

SpecViews == Init /\ [][NextViews]_vars

\* getAllWindows: a copy of the Map, listed in its iteration order
getAllWindows == [k \in 1..Len(windowKeys) |-> windows[windowKeys[k]]]

\* createWindow and bringToFront alone
MaxOrderSteps == 4

NextOrder ==
    /\ steps < MaxOrderSteps
    /\ steps' = steps + 1
    /\ UNCHANGED <<pointerVars, funVars, navVars>>
    /\ \/ \E id \in Ids, config \in Configs : createWindow(id, TypeOf[id], config)
       \/ \E id \in Ids : bringToFront(id)
    /\ stale' = staleAfter(last')
    /\ windowKeys' = keysAfter(windowKeys, windows')
    /\ UNCHANGED listMakerLists

SpecOrder == Init /\ [][NextOrder]_vars

\* the calls that take a zIndex from the shared counter, on windows created
\* without config.zIndex: every stored zIndex is a value the counter handed out
MaxCounterSteps == 4

CounterConfigs == {c \in Configs : Len(c.zIndex) = 0}

NextCounter ==
    /\ steps < MaxCounterSteps
    /\ steps' = steps + 1
    /\ UNCHANGED <<pointerVars, funVars, navVars>>
    /\ \/ \E id \in Ids, config \in CounterConfigs : createWindow(id, TypeOf[id], config)
       \/ \E id \in Ids : bringToFront(id)
       \/ \E id \in Ids : minimizeWindow(id)
       \/ \E id \in Ids : restoreWindow(id)
       \/ \E id \in Ids : destroyWindow(id)
    /\ stale' = staleAfter(last')
    /\ windowKeys' = keysAfter(windowKeys, windows')
    /\ UNCHANGED listMakerLists

SpecCounter == Init /\ [][NextCounter]_vars

\* the pointer sessions interleaved with the position monitor
NextPointer ==
    /\ steps < MaxPointerSteps
    /\ steps' = steps + 1
    /\ UNCHANGED <<funVars, navVars>>
    /\ \/ /\ \/ \E id \in Ids : handleCreateList(id)
             \/ \E id \in Ids : destroyWindow(id)
             \/ \E id \in Ids : minimizeWindow(id)
             \/ fixStuckWindows
             \/ monitorTick
             \/ \E vp \in Viewports : viewportResize(vp)
          /\ UNCHANGED pointerVars
       \/ \E id \in Ids, t \in Targets, p \in PointerInputs :
              handleMouseDown(id, t, p.x, p.y)
       \/ \E p \in PointerInputs : handleMouseMove(p.x, p.y)
       \/ handleMouseUp
    /\ stale' = staleAfter(last')
    /\ windowKeys' = keysAfter(windowKeys, windows')
    /\ UNCHANGED listMakerLists

SpecPointer == Init /\ [][NextPointer]_vars

(***************************************************************************)
(* Specification of the pure functions: the inputs are drawn in the        *)
(* initial state and the function under check is applied to them           *)
(***************************************************************************)
FunXs == {-20, 0, 5, 100, 750, 1870, 1900}
FunYs == {10, 140, 150, 200, 570, 1050, 1070}
FunViewports == {Size(w, h) : w \in {40, 50, 800, 1920}, h \in {170, 180, 600, 1080}}

InitFun ==
    /\ InitSys
    /\ listMakerLists = <<>>
    /\ viewport \in FunViewports
    /\ fin \in {Pos(x, y) : x \in FunXs, y \in FunYs}
    /\ fout = <<>>
    /\ facc = <<>>

applyValidatePosition ==
    /\ fout = <<>>
    /\ fout' = <<validatePosition(fin.x, fin.y, DefaultWidth, DefaultHeight)>>
    /\ UNCHANGED <<sysVars, pointerVars, histVars, navVars, windowKeys, listMakerLists, fin, facc>>

\* validatePosition applied to the position it returned
applyValidateAgain ==
    /\ Len(fout) = 1
    /\ fout' = Append(fout, validatePosition(fout[1].x, fout[1].y,
                                             DefaultWidth, DefaultHeight))
    /\ UNCHANGED <<sysVars, pointerVars, histVars, navVars, windowKeys, listMakerLists, fin, facc>>

applyIsPositionAccessible ==
    /\ facc = <<>>
    /\ facc' = <<isPositionAccessible(fin.x, fin.y)>>
    /\ UNCHANGED <<sysVars, pointerVars, histVars, navVars, windowKeys, listMakerLists, fin, fout>>

NextFun ==
    \/ applyValidatePosition
    \/ applyValidateAgain
    \/ applyIsPositionAccessible

SpecFun == InitFun /\ [][NextFun]_vars

\* list and item ids of the view contexts under check
KeyIds == {1, 2, 11, 12, 21, 111}

ViewContext(cv, l, i) == [currentView |-> cv, zoomedListId |-> l, zoomedItemId |-> i]

\* the view contexts AppController reaches: the root view, a zoom into a list,
\* a zoom into an item under a list
ViewContexts ==
    {ViewContext("root", 0, 0)}
    \cup {ViewContext("zoomed", l, 0) : l \in KeyIds}
    \cup {ViewContext("zoomed", l, i) : l \in KeyIds, i \in KeyIds}

InitKeys ==
    /\ InitSys
    /\ listMakerLists = <<>>
    /\ viewport = Size(1920, 1080)
    /\ fin \in ViewContexts \X ViewContexts
    /\ fout = <<>>
    /\ facc = <<>>

applyGenerateViewKey ==
    /\ fout = <<>>
    /\ fout' = <<generateViewKey(fin[1].currentView, fin[1].zoomedListId,
                                 fin[1].zoomedItemId),
                 generateViewKey(fin[2].currentView, fin[2].zoomedListId,
                                 fin[2].zoomedItemId)>>
    /\ UNCHANGED <<sysVars, pointerVars, histVars, navVars, windowKeys, listMakerLists, fin, facc>>

NextKeys == applyGenerateViewKey

SpecKeys == InitKeys /\ [][NextKeys]_vars

(***************************************************************************)
(* AppController: navigation between views and rendering                   *)
(***************************************************************************)
MaxNavSteps == 4

\* the item tree held by ListEngine: the items array of list 1 and of the
\* items below it
ItemsOf == (1 :> <<2>>) @@ (2 :> <<3>>) @@ (3 :> <<>>)
NavLists == {1}
NavItems == {2, 3}
NavPosInputs == {Pos(400, 300), Pos(5, 10)}

\* list.zIndex || 100 in renderRootView, 100 + index in renderItemAsList
listZIndex == 100
itemZIndex == 100

\* ListEngine.getList finds the list
hasList(listId) == \E k \in 1..Len(lists) : lists[k] = listId

RECURSIVE itemsBelow(_)
itemsBelow(c) ==
    UNION {{ItemsOf[c][k]} \cup itemsBelow(ItemsOf[c][k]) : k \in 1..Len(ItemsOf[c])}

\* ListEngine.findItemById finds the item, at any depth of the list
findItemById(itemId, listId) == hasList(listId) /\ itemId \in itemsBelow(listId)

\* targetContainer.items.find of convertToSubList with no parentPath
atTopLevel(listId, itemId) == \E k \in 1..Len(ItemsOf[listId]) : ItemsOf[listId][k] = itemId

\* the state an AppController call works on, with the hooks it has called
appState ==
    [currentView |-> currentView, zoomedListId |-> zoomedListId,
     zoomedItemId |-> zoomedItemId, navigationPath |-> navigationPath,
     windows |-> windows, maxZIndex |-> maxZIndex, dom |-> dom,
     saves |-> <<>>, restores |-> <<>>]

viewKeyOf(st) == generateViewKey(st.currentView, st.zoomedListId, st.zoomedItemId)

\* this.windowSystem.savePositionsForView(currentViewKey)
saved(st) == [st EXCEPT !.saves = Append(@, viewKeyOf(st))]

\* setTimeout(() => this.windowSystem.restorePositionsForView(key), 100)
scheduled(st, key) == [st EXCEPT !.restores = Append(@, key)]

\* createWindow called with position, size and zIndex in its config
createdIn(st, id, type, position, size, zIndex) ==
    LET config == Config(<<position>>, <<size>>, <<zIndex>>)
        validPosition == validatePosition(position.x, position.y,
                                          size.width, size.height)
    IN  [st EXCEPT !.windows = MapSet(@, id, windowConfig(type, validPosition, size,
                                                          st.maxZIndex, config)),
                   !.maxZIndex = IF takesCounter(config) THEN @ + 1 ELSE @]

\* a card whose markup got style="display: none;" ahead of its own style
\* attribute: the first attribute is the one the element keeps
hiddenCard ==
    [left |-> 0, top |-> 0, width |-> 0, height |-> 0, zIndex |-> 0, display |-> "none"]

RECURSIVE renderListCards(_, _)
renderListCards(st, index) ==
    IF index > Len(lists) THEN st
    ELSE LET id == lists[index]
             s1 == IF id \in DOMAIN st.windows THEN st
                   ELSE createdIn(st, id, "list",
                                  IF id \in DOMAIN listPos THEN listPos[id]
                                  ELSE getSmartPositionFor(st.windows),
                                  IF id \in DOMAIN listSize THEN listSize[id]
                                  ELSE Size(DefaultWidth, DefaultHeight),
                                  listZIndex)
             w == s1.windows[id]
             card == IF w.minimized THEN hiddenCard ELSE listElement(w)
         IN  renderListCards([s1 EXCEPT !.dom = MapSet(@, id, card)], index + 1)

renderRootView(st) == renderListCards([st EXCEPT !.dom = <<>>], 1)

\* renderItemAsList for each item of the zoomed container: the card is drawn
\* at a fresh getSmartPosition() with the default size, whether or not the
\* item already has a window
RECURSIVE renderItemCards(_, _, _)
renderItemCards(st, items, index) ==
    IF index > Len(items) THEN st
    ELSE LET id == items[index]
             position == getSmartPositionFor(st.windows)
             size == Size(DefaultWidth, DefaultHeight)
             zIndex == itemZIndex + (index - 1)
             s1 == IF id \in DOMAIN st.windows THEN st
                   ELSE createdIn(st, id, "item", position, size, zIndex)
             card == [left |-> position.x, top |-> position.y,
                      width |-> size.width, height |-> size.height,
                      zIndex |-> zIndex, display |-> ""]
             shown == IF s1.windows[id].minimized THEN hiddenCard ELSE card
         IN  renderItemCards([s1 EXCEPT !.dom = MapSet(@, id, shown)], items, index + 1)

RECURSIVE render(_)

zoomOutIn(st) ==
    scheduled(render([saved(st) EXCEPT !.currentView = "root",
                                       !.zoomedListId = 0,
                                       !.zoomedItemId = 0,
                                       !.navigationPath = <<>>]),
              "root")

renderZoomedView(st) ==
    IF ~hasList(st.zoomedListId) THEN zoomOutIn(st)
    ELSE IF st.zoomedItemId # 0 /\ ~findItemById(st.zoomedItemId, st.zoomedListId)
         THEN zoomOutIn(st)
         ELSE renderItemCards([st EXCEPT !.dom = <<>>],
                              ItemsOf[IF st.zoomedItemId # 0 THEN st.zoomedItemId
                                      ELSE st.zoomedListId],
                              1)

render(st) ==
    IF st.currentView = "root" THEN renderRootView(st)
    ELSE IF st.currentView = "zoomed" THEN renderZoomedView(st)
    ELSE st

\* the state an AppController call leaves behind
commit(op, id, ok, st) ==
    /\ currentView' = st.currentView
    /\ zoomedListId' = st.zoomedListId
    /\ zoomedItemId' = st.zoomedItemId
    /\ navigationPath' = st.navigationPath
    /\ windows' = st.windows
    /\ maxZIndex' = st.maxZIndex
    /\ dom' = st.dom
    /\ viewPositions' = savedUnder(viewPositions, st.saves)
    /\ timers' = timers \o st.restores
    /\ hooks' = Hooks(viewKeyOf(appState), viewKeyOf(st), st.saves, st.restores)
    /\ last' = Call(op, id, 0, 0, ok, "")
    /\ pre' = windows
    /\ UNCHANGED <<minimizedWindows, viewport, listPos, listSize, lists>>

zoomIntoList(listId) ==
    /\ IF ~hasList(listId)
       THEN commit("zoomIntoList", listId, FALSE, appState)
       ELSE LET s1 == [saved(appState) EXCEPT !.currentView = "zoomed",
                                              !.zoomedListId = listId,
                                              !.navigationPath = <<listId>>]
                s2 == render(s1)
            IN  commit("zoomIntoList", listId, TRUE, scheduled(s2, viewKeyOf(s2)))
    /\ rendered' = <<>>
    /\ UNCHANGED sublistItems

zoomOut ==
    /\ commit("zoomOut", 0, TRUE, zoomOutIn(appState))
    /\ rendered' = <<>>
    /\ UNCHANGED sublistItems

zoomIntoItem(itemId, parentListId) ==
    /\ rendered' = <<>>
    /\ IF ~findItemById(itemId, parentListId)
       THEN /\ commit("zoomIntoItem", itemId, FALSE, appState)
            /\ UNCHANGED sublistItems
       ELSE IF itemId \notin sublistItems /\ ~atTopLevel(parentListId, itemId)
            THEN \* convertToSubList throws: the call ends after its save
                 /\ commit("zoomIntoItem", itemId, TRUE, saved(appState))
                 /\ UNCHANGED sublistItems
            ELSE LET s1 == [saved(appState) EXCEPT
                               !.currentView = "zoomed",
                               !.zoomedListId = parentListId,
                               !.zoomedItemId = itemId,
                               !.navigationPath = Append(@, itemId)]
                     s2 == render(s1)
                 IN  /\ commit("zoomIntoItem", itemId, TRUE,
                               scheduled(s2, viewKeyOf(s2)))
                     /\ sublistItems' = sublistItems \cup {itemId}

\* pathIndex counts from 0 as in the source
zoomToLevel(pathIndex) ==
    /\ rendered' = <<>>
    /\ UNCHANGED sublistItems
    /\ IF pathIndex < 0 \/ pathIndex >= Len(navigationPath)
       THEN commit("zoomToLevel", pathIndex, FALSE, appState)
       ELSE LET path == SubSeq(navigationPath, 1, pathIndex + 1)
                targetLevel == path[pathIndex + 1]
                s1 == [saved(appState) EXCEPT
                          !.navigationPath = path,
                          !.zoomedListId = IF pathIndex = 0 THEN targetLevel ELSE path[1],
                          !.zoomedItemId = IF pathIndex = 0 THEN 0 ELSE targetLevel]
                s2 == render(s1)
            IN  commit("zoomToLevel", pathIndex, TRUE, scheduled(s2, viewKeyOf(s2)))

\* AppController.render() called for the view the controller is in
renderCall ==
    LET st == render(appState)
    IN  /\ commit("render", 0, TRUE, st)
        /\ rendered' = IF st.saves = <<>> THEN <<windows>> ELSE <<>>
        /\ UNCHANGED sublistItems

\* a pending setTimeout callback runs restorePositionsForView
restoreTimer ==
    /\ timers # <<>>
    /\ restorePositionsForView(Head(timers))
    /\ timers' = Tail(timers)
    /\ hooks' = NoHooks
    /\ rendered' = <<>>
    /\ UNCHANGED <<viewVars, lists, sublistItems>>

handleDeleteList(listId) ==
    /\ IF hasList(listId)
       THEN /\ lists' = SelectSeq(lists, LAMBDA l : l # listId)
            /\ destroyWindow(listId)
       ELSE /\ last' = Call("handleDeleteList", listId, 0, 0, FALSE, "")
            /\ pre' = windows
            /\ UNCHANGED <<sysVars, lists>>
    /\ hooks' = NoHooks
    /\ rendered' = <<>>
    /\ UNCHANGED <<viewVars, sublistItems, timers>>

\* the engine loaded from storage holds list 1 with its items; the
\* constructor's init() has rendered the root view
InitNav ==
    LET st == renderRootView([currentView |-> "root", zoomedListId |-> 0,
                              zoomedItemId |-> 0, navigationPath |-> <<>>,
                              windows |-> <<>>, maxZIndex |-> InitialMaxZIndex,
                              dom |-> <<>>, saves |-> <<>>, restores |-> <<>>])
    IN  /\ viewport = Size(1920, 1080)
        /\ listPos = <<>>
        /\ listSize = <<>>
        /\ lists = <<1>>
        /\ sublistItems = {2}
        /\ currentView = "root"
        /\ zoomedListId = 0
        /\ zoomedItemId = 0
        /\ navigationPath = <<>>
        /\ timers = <<>>
        /\ hooks = NoHooks
        /\ rendered = <<>>
        /\ windows = st.windows
        /\ windowKeys = ascending(DOMAIN st.windows)
        /\ listMakerLists = <<>>
        /\ maxZIndex = st.maxZIndex
        /\ dom = st.dom
        /\ minimizedWindows = {}
        /\ viewPositions = <<>>
        /\ draggedWindow = <<>>
        /\ dragOffset = Pos(0, 0)
        /\ isResizing = FALSE
        /\ resizeData = <<>>
        /\ last = NoCall
        /\ pre = <<>>
        /\ steps = 0
        /\ stale = {}
        /\ fin = <<>>
        /\ fout = <<>>
        /\ facc = <<>>

NextNav ==
    /\ steps < MaxNavSteps
    /\ steps' = steps + 1
    /\ UNCHANGED <<pointerVars, funVars>>
    /\ \/ \E l \in NavLists : zoomIntoList(l)
       \/ \E i \in NavItems, l \in NavLists : zoomIntoItem(i, l)
       \/ \E k \in 0..2 : zoomToLevel(k)
       \/ zoomOut
       \/ renderCall
       \/ restoreTimer
       \/ \E l \in NavLists : handleDeleteList(l)
       \/ /\ \/ \E id \in NavLists \cup NavItems, p \in NavPosInputs :
                   moveWindow(id, p.x, p.y)
             \/ captureAllSpatialState
          /\ hooks' = NoHooks
          /\ rendered' = IF last'.op = "captureAllSpatialState" THEN rendered ELSE <<>>
          /\ UNCHANGED <<viewVars, lists, sublistItems, timers>>
    /\ stale' = staleAfter(last')
    /\ windowKeys' = keysAfter(windowKeys, windows')
    /\ UNCHANGED listMakerLists

SpecNav == InitNav /\ [][NextNav]_vars

(***************************************************************************)
(* Legacy ListMaker (script.js): the positions of the lists                *)
(***************************************************************************)
MaxLegacyLists == 2

legacyHeaderHeight == 120
legacyRightSpace == 100
legacyBottomSpace == 100

Maximum(a, b) == IF a >= b THEN a ELSE b
Minimum(a, b) == IF a <= b THEN a ELSE b

LegacyViewports == {Size(1920, 1080), Size(800, 600), Size(80, 100)}
\* list.position as found in localStorage: <<>> when the property is missing
StoredPositions == {<<>>, <<Pos(-50, 50)>>, <<Pos(3000, 2000)>>, <<Pos(200, 300)>>}
\* positions requested by a drag
LegacyPosInputs == {Pos(-30, 40), Pos(400, 300), Pos(2500, 1500)}

\* updateListPosition: the constrained position of a drag to (x, y)
updateListPositionTo(x, y, vp) ==
    Pos(Maximum(0, Minimum(vp.width - legacyRightSpace, x)),
        Maximum(legacyHeaderHeight, Minimum(vp.height - legacyBottomSpace, y)))

\* fixListPosition clamping with the upper bound applied last
fixListPosition_upperLast(p, vp) ==
    LET maxX == vp.width - legacyRightSpace
        maxY == vp.height - legacyBottomSpace
    IN  Pos(IF p.x < 0 \/ p.x > maxX THEN Minimum(maxX, Maximum(0, p.x)) ELSE p.x,
            IF p.y < legacyHeaderHeight \/ p.y > maxY
            THEN Minimum(maxY, Maximum(legacyHeaderHeight, p.y)) ELSE p.y)

fixListPosition(p, vp) ==
    LET maxX == vp.width - legacyRightSpace
        maxY == vp.height - legacyBottomSpace
    IN  Pos(IF p.x < 0 \/ p.x > maxX THEN Maximum(0, Minimum(maxX, p.x)) ELSE p.x,
            IF p.y < legacyHeaderHeight \/ p.y > maxY
            THEN Maximum(legacyHeaderHeight, Minimum(maxY, p.y)) ELSE p.y)

\* index counts from 0 as in the source
getDefaultPosition(index) == Pos(50 + index * 30, 100 + index * 30)

\* migrateOldData over the stored lists
migrateOldData(stored, vp) ==
    [k \in 1..Len(stored) |->
        fixListPosition(IF Len(stored[k]) > 0 THEN stored[k][1]
                        ELSE getDefaultPosition(k - 1),
                        vp)]

legacyCandidate(attempt) ==
    Pos(baseX + (attempt % 5) * 30, legacyHeaderHeight + (attempt \div 5) * 30)

\* ListMaker.getSmartPosition: the same search as WindowSystem's, over the lists
legacySmartPosition(ls) ==
    IF Len(ls) = 0 THEN Pos(baseX, legacyHeaderHeight)
    ELSE LET free == {a \in 0..(maxAttempts - 1) :
                         ~\E k \in 1..Len(ls) : overlapsWindow(legacyCandidate(a), ls[k])}
         IN  IF free # {}
             THEN legacyCandidate(CHOOSE a \in free : \A b \in free : a <= b)
             ELSE Pos(baseX + Len(ls) * 30, legacyHeaderHeight + Len(ls) * 30)

InitLegacy ==
    /\ InitSys
    /\ facc = <<>>
    /\ fout = <<>>
    /\ fin = <<>>
    /\ viewport \in LegacyViewports
    /\ \E stored \in UNION {[1..n -> StoredPositions] : n \in 0..MaxLegacyLists} :
           listMakerLists = migrateOldData(stored, viewport)

legacyFrame == UNCHANGED <<windows, maxZIndex, minimizedWindows, viewPositions, dom,
                           listPos, listSize, pointerVars, steps, stale, funVars,
                           navVars, windowKeys>>

createList ==
    /\ Len(listMakerLists) < MaxLegacyLists
    /\ listMakerLists' = Append(listMakerLists, legacySmartPosition(listMakerLists))
    /\ last' = Call("createList", Len(listMakerLists) + 1, 0, 0, TRUE, "")
    /\ pre' = pre
    /\ UNCHANGED viewport
    /\ legacyFrame

updateListPosition(listId, x, y) ==
    /\ IF listId \in 1..Len(listMakerLists)
       THEN listMakerLists' = [listMakerLists EXCEPT
                                  ![listId] = updateListPositionTo(x, y, viewport)]
       ELSE UNCHANGED listMakerLists
    /\ last' = Call("updateListPosition", listId, x, y,
                    listId \in 1..Len(listMakerLists), "")
    /\ pre' = pre
    /\ UNCHANGED viewport
    /\ legacyFrame

\* the resize listener of bindResizeHandler
legacyResize(vp) ==
    /\ viewport' = vp
    /\ listMakerLists' = [k \in 1..Len(listMakerLists) |->
                             fixListPosition(listMakerLists[k], vp)]
    /\ last' = Call("resize", 0, vp.width, vp.height, TRUE, "")
    /\ pre' = pre
    /\ legacyFrame

NextLegacy ==
    \/ createList
    \/ \E listId \in 1..MaxLegacyLists, p \in LegacyPosInputs :
           updateListPosition(listId, p.x, p.y)
    \/ \E vp \in LegacyViewports : legacyResize(vp)

SpecLegacy == InitLegacy /\ [][NextLegacy]_vars

(***************************************************************************)
(* Properties                                                              *)
(***************************************************************************)
SameGeometry(w, v) ==
    /\ w.position = v.position
    /\ w.size = v.size
    /\ w.zIndex = v.zIndex

\* C1: header clearance. In every reachable state every window that is not
\* minimized has position.y >= POSITION_CONSTRAINTS.minY (150).
C1_HeaderClearance ==
    \A id \in DOMAIN windows :
        ~windows[id].minimized => windows[id].position.y >= POSITION_CONSTRAINTS.minY

\* C2: createWindow stores validatePosition of the position it chose
\* (config.position when supplied, the smart position otherwise); in a
\* 1920x1080 viewport a window created without a position is stored at
\* (100, 150) and one created with config.position.y < 150 has y = 150.
C2_CreateStoresValidated ==
    last.op = "createWindow" =>
        LET w == windows[last.id]
        IN  /\ w.position = validatePosition(last.a, last.b, w.size.width, w.size.height)
            /\ (viewport = Size(1920, 1080) /\ last.b < 150) => w.position.y = 150

\* what moveWindow(id, x, y) must leave behind for an existing id: the stored
\* position, the element's left/top and the position handed to the
\* onWindowMoved listener are validatePosition(x, y, size.width, size.height)
MoveStored(id, expected) ==
    /\ windows[id].position = expected
    /\ HasElement(id) => (dom[id].left = expected.x /\ dom[id].top = expected.y)
    /\ windows[id].type = "list" => (id \in DOMAIN listPos /\ listPos[id] = expected)

MoveExpected ==
    validatePosition(last.a, last.b, pre[last.id].size.width, pre[last.id].size.height)

\* C3 (as stated): after moveWindow(id, x, y) on an existing id the stored
\* position is validatePosition(x, y, size.width, size.height) under the
\* current viewport, the element and the onWindowMoved listener get that
\* corrected value, and in a 1920x1080 viewport a move to (5, 10) stores
\* (0, 150).
C3_MoveStoresValidated_Original ==
    (last.op = "moveWindow" /\ last.ok) =>
        /\ MoveStored(last.id, MoveExpected)
        /\ (viewport = Size(1920, 1080) /\ last.a = 5 /\ last.b = 10)
               => windows[last.id].position = Pos(0, 150)

\* C3 (amended): after moveWindow(id, x, y) on an existing id the stored
\* position is validatePosition(x, y, size.width, size.height) under the
\* current viewport, the element and the onWindowMoved listener get that
\* corrected value, and in a 1920x1080 viewport a move to (5, 10) stores
\* (5, 150): only y is below its bound.
C3_MoveStoresValidated ==
    (last.op = "moveWindow" /\ last.ok) =>
        /\ MoveStored(last.id, MoveExpected)
        /\ (viewport = Size(1920, 1080) /\ last.a = 5 /\ last.b = 10)
               => windows[last.id].position = Pos(5, 150)

\* a rendered list window in a 1920x1080 viewport was moved to (5, 10) and is
\* stored, shown and reported at the corrected position
C3_Witness ==
    /\ last.op = "moveWindow" /\ last.ok
    /\ last.a = 5 /\ last.b = 10
    /\ viewport = Size(1920, 1080)
    /\ HasElement(last.id)
    /\ windows[last.id].position = Pos(5, 150)
    /\ dom[last.id].top = 150
    /\ listPos[last.id] = Pos(5, 150)

\* C4: validatePosition protects the lower bounds for every input and every
\* viewport: the returned y is >= minY (150) and the returned x is >= minX (0).
C4_ValidateLowerBounds ==
    fout # <<>> =>
        /\ fout[1].y >= POSITION_CONSTRAINTS.minY
        /\ fout[1].x >= POSITION_CONSTRAINTS.minX

\* C5: size floors. In every reachable state every window that is not
\* minimized has size.width >= 300 and size.height >= 200.
C5_SizeFloors ==
    \A id \in DOMAIN windows :
        ~windows[id].minimized =>
            /\ windows[id].size.width >= minWidth
            /\ windows[id].size.height >= minHeight

\* C6: monotonic z-order. Immediately after bringToFront(id) on an existing
\* window, its zIndex is strictly greater than that of every other window.
C6_FrontIsTop ==
    (last.op = "bringToFront" /\ last.ok) =>
        \A j \in (DOMAIN windows) \ {last.id} :
            windows[last.id].zIndex > windows[j].zIndex

\* C7: when the viewport shrank while window id was minimized, restoreWindow(id)
\* leaves it not minimized, at validatePosition(retained position) for the new
\* viewport, and with a zIndex greater than before.
C7_RestoreAfterShrink ==
    [][\A id \in Ids :
          (/\ last.op = "viewportResize" /\ last.ok
           /\ Has(id) /\ windows[id].minimized
           /\ last'.op = "restoreWindow" /\ last'.id = id)
          => (/\ ~windows'[id].minimized
              /\ windows'[id].position =
                     validatePositionIn(windows[id].position.x,
                                        windows[id].position.y, viewport')
              /\ windows'[id].zIndex > windows[id].zIndex)]_vars

\* C8: minimizeWindow(id) sets minimized and leaves the stored position, size
\* and zIndex exactly as they were, whatever the rendered element holds.
C8_MinimizeKeepsGeometry ==
    (last.op = "minimizeWindow" /\ last.ok) =>
        /\ windows[last.id].minimized
        /\ SameGeometry(windows[last.id], pre[last.id])

\* C9: minimize/restore symmetry. minimizeWindow(id) followed directly by
\* restoreWindow(id) (viewport unchanged) leaves position and size as they
\* were before the minimize, minimized = false and zIndex strictly greater.
C9_MinimizeRestoreSymmetry ==
    [][\A id \in Ids :
          (/\ last.op = "minimizeWindow" /\ last.ok /\ last.id = id
           /\ last'.op = "restoreWindow" /\ last'.id = id)
          => (/\ windows'[id].position = pre[id].position
              /\ windows'[id].size = pre[id].size
              /\ ~windows'[id].minimized
              /\ windows'[id].zIndex > pre[id].zIndex)]_vars

\* C10: snapshot round trip. savePositionsForView(key) followed directly by
\* restorePositionsForView(key) leaves every non-minimized window with the
\* position, size and zIndex it had before the save.
C10_SnapshotRoundTrip ==
    [][(/\ last.op = "savePositionsForView"
        /\ last'.op = "restorePositionsForView" /\ last'.key = last.key)
       => \A id \in DOMAIN pre :
              ~pre[id].minimized => SameGeometry(windows'[id], pre[id])]_vars

C12_StaleEntriesInert ==
    (last.op = "restorePositionsForView" /\ last.ok) =>
        \A id \in DOMAIN windows :
            <<last.key, id>> \in stale => SameGeometry(windows[id], pre[id])

\* the runs of the position monitor: the resize listener, a fixStuckWindows
\* scan and the interval callback
MonitorOps == {"viewportResize", "fixStuckWindows", "monitorTick"}

\* C13: the position monitor never touches a minimized window. A viewport
\* resize, a fixStuckWindows scan or a monitor tick leaves the stored position
\* and size of every minimized window as they were.
C13_MonitorSkipsMinimized ==
    last.op \in MonitorOps =>
        \A id \in DOMAIN pre :
            pre[id].minimized =>
                /\ windows[id].position = pre[id].position
                /\ windows[id].size = pre[id].size

\* C14: after every monitor tick (scanForPositionIssues, then fixStuckWindows
\* when issues were found), in a viewport at least minVisibleWidth wide and
\* minY + minVisibleHeight tall, every window satisfies isPositionAccessible:
\* violations on all four sides have been corrected.
C14_TickCorrectsAll ==
    (/\ last.op = "monitorTick"
     /\ viewport.width >= POSITION_CONSTRAINTS.minVisibleWidth
     /\ viewport.height >= POSITION_CONSTRAINTS.minY
                              + POSITION_CONSTRAINTS.minVisibleHeight) =>
        \A id \in DOMAIN windows :
            isPositionAccessible(windows[id].position.x, windows[id].position.y)

\* the window a drag or resize session is active on, as a set
SessionIds ==
    (IF draggedWindow # <<>> THEN {draggedWindow[1].id} ELSE {})
    \cup (IF isResizing /\ resizeData # <<>> THEN {resizeData[1].id} ELSE {})

\* C15: the monitor does not fight the pointer. While a drag or resize session
\* is active on window w, a monitor run (interval tick, resize listener or
\* fixStuckWindows) leaves w's stored position unchanged.
C15_MonitorSkipsSession ==
    last.op \in MonitorOps =>
        \A w \in SessionIds \cap DOMAIN pre :
            Has(w) /\ windows[w].position = pre[w].position

\* C16: createWindow with an id already present in the registry fails and
\* leaves the existing record (position, size, zIndex, minimized) and the
\* z-order counter unchanged; the record is never replaced or merged.
C16_DuplicateIdRejected ==
    [][(last'.op = "createWindow" /\ Has(last'.id))
       => (/\ windows' = windows
           /\ maxZIndex' = maxZIndex)]_vars

\* the mutators that take a window id
MutatorOps == {"moveWindow", "resizeWindow", "bringToFront", "minimizeWindow",
               "restoreWindow"}

\* C17: mutations on an unknown id are silent no-ops. moveWindow,
\* resizeWindow, bringToFront, minimizeWindow and restoreWindow called with an
\* id that is not in the registry return false and leave all window records,
\* minimizedWindows, maxZIndex and the saved view snapshots unchanged.
C17_UnknownIdNoOp ==
    [][(last'.op \in MutatorOps /\ ~Has(last'.id))
       => (/\ ~last'.ok
           /\ windows' = windows
           /\ minimizedWindows' = minimizedWindows
           /\ maxZIndex' = maxZIndex
           /\ viewPositions' = viewPositions)]_vars

\* a mutator was called for a window that was saved in a snapshot and then
\* destroyed: it returned false, the registry and the snapshot are as before
C17_Witness ==
    /\ last.op \in MutatorOps /\ ~last.ok
    /\ ~Has(last.id)
    /\ \E k \in DOMAIN viewPositions :
           <<k, last.id>> \in stale /\ last.id \in DOMAIN viewPositions[k]
    /\ windows = pre

\* C18: destroyWindow(id) for a registered id removes the record and the id's
\* membership in minimizedWindows and returns true, leaving the other records
\* alone; for an absent id (a second call included) it returns false and
\* changes nothing. After it the id is absent from the registry.
C18_DestroyIdempotent ==
    [][last'.op = "destroyWindow"
       => LET id == last'.id
          IN  /\ ~(id \in DOMAIN windows')
              /\ ~(id \in minimizedWindows')
              /\ IF Has(id)
                 THEN /\ last'.ok
                      /\ windows' = MapDelete(windows, id)
                      /\ minimizedWindows' = minimizedWindows \ {id}
                 ELSE /\ ~last'.ok
                      /\ UNCHANGED sysVars]_vars

\* a minimized window was destroyed: the call returned true, the record and
\* the minimized membership are gone
C18_Witness ==
    /\ last.op = "destroyWindow" /\ last.ok
    /\ last.id \in DOMAIN pre
    /\ pre[last.id].minimized
    /\ ~Has(last.id)
    /\ ~(last.id \in minimizedWindows)

\* C19: for an existing id, resizeWindow(id, w, h) stores width = max(300, w)
\* and height = max(200, h) with no upper bound (a resize to (10, 10) stores
\* (300, 200), one to (500, 450) stores (500, 450)) and leaves the window's
\* position unchanged.
C19_ResizeFloors ==
    (last.op = "resizeWindow" /\ last.ok) =>
        LET w == windows[last.id]
        IN  /\ w.size.width = (IF last.a > 300 THEN last.a ELSE 300)
            /\ w.size.height = (IF last.b > 200 THEN last.b ELSE 200)
            /\ (last.a = 10 /\ last.b = 10) => w.size = Size(300, 200)
            /\ (last.a = 500 /\ last.b = 450) => w.size = Size(500, 450)
            /\ w.position = pre[last.id].position

\* a window that was created 10x10 was resized to (10, 10): it is stored
\* 300x200 at the position it had
C19_Witness ==
    /\ last.op = "resizeWindow" /\ last.ok
    /\ last.a = 10 /\ last.b = 10
    /\ pre[last.id].size = Size(10, 10)
    /\ windows[last.id].size = Size(300, 200)
    /\ windows[last.id].position = pre[last.id].position

\* C20: validatePosition is idempotent: for every input position and every
\* fixed viewport, validating the position it returned gives that position back.
C20_ValidateIdempotent ==
    Len(fout) = 2 => fout[2] = fout[1]

\* C21: isPositionAccessible(x, y) is true exactly when validatePosition(x, y)
\* returns (x, y) unchanged, for every x, y and every viewport, and
\* isPositionAccessible changes no state.
C21_AccessibleIffValid ==
    [][/\ (facc' # <<>> /\ fout' # <<>>) => (facc'[1] <=> (fout'[1] = fin'))
       /\ (facc' # facc) => UNCHANGED <<sysVars, pointerVars>>]_vars

\* both functions were applied to a position on the right and header bounds
\* of the viewport: accessible, and returned unchanged
C21_Witness ==
    /\ facc = <<TRUE>>
    /\ fout # <<>> /\ fout[1] = fin
    /\ fin.x = viewport.width - POSITION_CONSTRAINTS.minVisibleWidth
    /\ fin.y = POSITION_CONSTRAINTS.minY

\* C22: savePositionsForView(key) stores under key an entry for exactly the
\* windows that are not minimized, each entry holding that window's current
\* position, size and zIndex; it replaces the earlier snapshot of the key and
\* leaves the snapshots of other keys and all window records unchanged.
C22_SaveRecordsRegistry ==
    [][last'.op = "savePositionsForView"
       => LET k == last'.key
          IN  /\ k \in DOMAIN viewPositions'
              /\ DOMAIN viewPositions'[k] =
                     {i \in DOMAIN windows : ~windows[i].minimized}
              /\ \A i \in DOMAIN viewPositions'[k] :
                     viewPositions'[k][i] =
                         Entry(windows[i].position.x, windows[i].position.y,
                               windows[i].size.width, windows[i].size.height,
                               windows[i].zIndex)
              /\ \A j \in (DOMAIN viewPositions) \ {k} :
                     j \in DOMAIN viewPositions' /\ viewPositions'[j] = viewPositions[j]
              /\ windows' = windows]_vars

\* C23: restorePositionsForView(key) with a key that was never saved is a
\* no-op: every window record, the z-order counter and all stored snapshots
\* are left unchanged.
C23_RestoreUnknownKey ==
    [][(last'.op = "restorePositionsForView" /\ ~(last'.key \in DOMAIN viewPositions))
       => (/\ ~last'.ok
           /\ windows' = windows
           /\ maxZIndex' = maxZIndex
           /\ viewPositions' = viewPositions
           /\ dom' = dom)]_vars

\* a view without a snapshot was restored while another view has one that
\* differs from the registry: nothing was applied
C23_Witness ==
    /\ last.op = "restorePositionsForView" /\ ~last.ok
    /\ ~(last.key \in DOMAIN viewPositions)
    /\ \E k \in DOMAIN viewPositions : \E i \in DOMAIN viewPositions[k] :
           /\ Has(i) /\ ~windows[i].minimized
           /\ windows[i].position # Pos(viewPositions[k][i].x, viewPositions[k][i].y)
    /\ windows = pre

\* the 350x400 box at c, padded by 20px on every side, is disjoint from the
\* 350x400 box at p
PaddedBoxClearOf(c, p) ==
    \/ c.x - 20 > p.x + 350
    \/ c.x + 350 + 20 < p.x
    \/ c.y - 20 > p.y + 400
    \/ c.y + 400 + 20 < p.y

\* C25: with no windows getSmartPosition returns (100, HEADER_HEIGHT); with
\* exactly one window, of the default size 350x400 at (100, HEADER_HEIGHT), it
\* returns a candidate whose padded box does not intersect that window's box.
C25_SmartPlacement ==
    /\ DOMAIN windows = {} => getSmartPosition = Pos(100, HEADER_HEIGHT)
    /\ \A id \in DOMAIN windows :
           (/\ DOMAIN windows = {id}
            /\ windows[id].position = Pos(100, HEADER_HEIGHT)
            /\ windows[id].size = Size(350, 400))
           => PaddedBoxClearOf(getSmartPosition, windows[id].position)

\* C26: at most one pointer session is active at any time: draggedWindow # null
\* and isResizing = true never hold together, for every sequence of mousedown,
\* mousemove and mouseup events.
C26_SingleSession ==
    ~(draggedWindow # <<>> /\ isResizing)

\* C27: no phantom drag. After the mouseup handler ran, draggedWindow is null
\* and isResizing is false whatever happened since the mousedown, and a
\* mousemove with no session changes no window's position or size.
C27_NoPhantomDrag ==
    [][/\ last'.op = "handleMouseUp"
          => (draggedWindow' = <<>> /\ ~isResizing' /\ resizeData' = <<>>)
       /\ (last.op = "handleMouseUp" /\ last'.op = "handleMouseMove")
          => (windows' = windows /\ dom' = dom)]_vars

\* the dragged window was destroyed before the pointer was released: the
\* mouseup still ended the session
C27_Witness ==
    /\ last.op = "handleMouseUp" /\ last.ok
    /\ last.id # 0 /\ ~Has(last.id)
    /\ draggedWindow = <<>>
    /\ ~isResizing

\* C28: change notification. After every call of moveWindow, resizeWindow,
\* bringToFront, minimizeWindow or restoreWindow that changed a list window's
\* stored position or size, the listener's mirror (list.position, list.size)
\* equals the registry's value.
C28_MirrorFollowsRegistry ==
    (last.op \in MutatorOps /\ last.ok /\ windows[last.id].type = "list") =>
        LET id == last.id
        IN  /\ windows[id].position # pre[id].position
                  => (id \in DOMAIN listPos /\ listPos[id] = windows[id].position)
            /\ windows[id].size # pre[id].size
                  => (id \in DOMAIN listSize /\ listSize[id] = windows[id].size)

\* C24: generateViewKey is injective over view contexts: the root view, a
\* zoom into list L and a zoom into item I under list L get pairwise different
\* keys, and two item zooms get the same key only if both ids are equal.
C24_ViewKeyInjective ==
    fout # <<>> => (fout[1] = fout[2] => fin[1] = fin[2])

\* two item zooms whose ids concatenate to the same digits, (1, 11) and
\* (11, 1), got different keys
C24_Witness ==
    /\ fout # <<>>
    /\ fin[1] = ViewContext("zoomed", 1, 11)
    /\ fin[2] = ViewContext("zoomed", 11, 1)
    /\ fout[1] = "list-1-item-11"
    /\ fout[2] = "list-11-item-1"

TransitionOps == {"zoomIntoList", "zoomIntoItem", "zoomToLevel", "zoomOut"}

\* C29: every view transition AppController performs (zoomIntoList,
\* zoomIntoItem, zoomToLevel, zoomOut, a zoomOut made inside render, a
\* transition that aborts with an error) calls savePositionsForView exactly
\* once, with the key of the view left, and restorePositionsForView exactly
\* once, with the key of the view entered.
C29_TransitionHooks ==
    (\/ last.op \in TransitionOps /\ last.ok
     \/ last.op = "render" /\ hooks.left # hooks.entered)
        => /\ hooks.saves = <<hooks.left>>
           /\ hooks.restores = <<hooks.entered>>

\* the windows the current view shows: list windows in the root view, item
\* windows in a zoomed view
shownType == IF currentView = "root" THEN "list" ELSE "item"

\* C30: render() for the current view followed by captureAllSpatialState
\* leaves the stored position and size of every window that was registered
\* and not minimized, and that the view shows, unchanged.
C30_RerenderKeepsGeometry ==
    (last.op = "captureAllSpatialState" /\ rendered # <<>>) =>
        \A id \in DOMAIN rendered[1] :
            (~rendered[1][id].minimized /\ rendered[1][id].type = shownType /\ Has(id))
                => /\ windows[id].position = rendered[1][id].position
                   /\ windows[id].size = rendered[1][id].size

\* C31: the listing of all windows (getAllWindows) is ordered by zIndex
\* ascending, after any sequence of createWindow and bringToFront calls.
C31_ListingByZIndex ==
    \A i, j \in 1..Len(getAllWindows) :
        i < j => getAllWindows[i].zIndex <= getAllWindows[j].zIndex

\* C32: in a viewport narrower than minVisibleWidth, where
\* viewport.width - minVisibleWidth < minX, validatePosition returns
\* x = minX for every requested x.
C32_NarrowViewportClampsToMinX ==
    (Len(fout) >= 1
     /\ viewport.width - POSITION_CONSTRAINTS.minVisibleWidth < POSITION_CONSTRAINTS.minX)
        => fout[1].x = POSITION_CONSTRAINTS.minX

\* C33: the shared counter hands out strictly increasing values (createWindow
\* without config.zIndex, bringToFront, restoreWindow), so in any interleaving
\* of these calls no two live windows hold the same counter-allocated zIndex.
C33_CounterValuesDistinct ==
    \A i, j \in DOMAIN windows : i # j => windows[i].zIndex # windows[j].zIndex

\* the 350x400 box at c, padded by 20px on every side, is disjoint from the
\* rectangle of the window w
PaddedBoxClearOfWindow(c, w) ==
    \/ c.x - 20 > w.position.x + w.size.width
    \/ c.x + 350 + 20 < w.position.x
    \/ c.y - 20 > w.position.y + w.size.height
    \/ c.y + 400 + 20 < w.position.y

\* the attempts a = 0..19 whose candidate, base + ((a mod 5) * 30,
\* floor(a / 5) * 30), overlaps no existing window
ClearAttempts ==
    {a \in 0..19 :
        \A i \in DOMAIN windows :
            PaddedBoxClearOfWindow(Pos(100 + (a % 5) * 30, HEADER_HEIGHT + (a \div 5) * 30),
                                   windows[i])}

\* C34: with at least one window, getSmartPosition returns the first candidate
\* in attempt order whose padded default-size box overlaps no existing window,
\* and base + (n * 30, n * 30), n the number of windows, if all 20 overlap; the
\* result is never clamped to the header or viewport bounds.
C34_FirstClearCandidate ==
    DOMAIN windows # {} =>
        getSmartPosition =
            IF ClearAttempts # {}
            THEN LET a == CHOOSE a \in ClearAttempts : \A b \in ClearAttempts : a <= b
                 IN  Pos(100 + (a % 5) * 30, HEADER_HEIGHT + (a \div 5) * 30)
            ELSE Pos(100 + Cardinality(DOMAIN windows) * 30,
                     HEADER_HEIGHT + Cardinality(DOMAIN windows) * 30)

\* C35: drag session. The pointer-to-window offset captured at the mousedown
\* on a header is not changed by mousemoves; a mousemove at (px, py) during
\* the session stores the validated value of (px - offsetX, py - offsetY) as
\* the position of the dragged window; mouseup ends the session and brings the
\* dragged window to the front.
C35_DragSession ==
    [][/\ last'.op = "handleMouseMove" => dragOffset' = dragOffset
       /\ (last'.op = "handleMouseMove" /\ draggedWindow # <<>>
              /\ Has(draggedWindow[1].id))
             => windows'[draggedWindow[1].id].position =
                    validatePositionIn(last'.a - dragOffset.x, last'.b - dragOffset.y,
                                       viewport)
       /\ (last'.op = "handleMouseUp" /\ draggedWindow # <<>>)
             => /\ draggedWindow' = <<>>
                /\ Has(draggedWindow[1].id) =>
                      \A j \in DOMAIN windows' \ {draggedWindow[1].id} :
                          windows'[draggedWindow[1].id].zIndex > windows'[j].zIndex]_vars

\* C36: a deferred snapshot restore runs only in the view it was scheduled
\* for: no restorePositionsForView(K) callback runs while the key of the
\* current view differs from K, however fast the view transitions follow
\* each other.
C36_RestoreInOwnView ==
    [][(last'.op = "restorePositionsForView" /\ timers # <<>> /\ timers' = Tail(timers))
          => Head(timers) = generateViewKey(currentView, zoomedListId, zoomedItemId)]_vars

\* C37: the monitor converges. With the viewport held fixed and no other
\* operation in between, a run of fixStuckWindows that follows another run
\* returns 0 and changes no position.
C37_MonitorConverges ==
    [][(last.op = "fixStuckWindows" /\ last'.op = "fixStuckWindows")
          => /\ last'.a = 0
             /\ \A id \in DOMAIN windows :
                    windows'[id].position = windows[id].position]_vars

\* C38: minimized bookkeeping is consistent. In every reachable state the set
\* minimizedWindows equals the set of ids whose record has minimized = true,
\* and every member is the id of a live window.
C38_MinimizedSetMatchesRecords ==
    /\ minimizedWindows = {id \in DOMAIN windows : windows[id].minimized}
    /\ minimizedWindows \subseteq DOMAIN windows

\* C39: the z-order counter bounds every window. After every call maxZIndex is
\* greater than or equal to the zIndex of every window in the registry, and
\* maxZIndex never decreases.
C39_CounterBoundsWindows ==
    [][/\ \A id \in DOMAIN windows' : maxZIndex' >= windows'[id].zIndex
       /\ maxZIndex' >= maxZIndex]_vars

\* C40: legacy ListMaker. After migrateOldData and after any sequence of
\* createList, updateListPosition and viewport resizes, every list has
\* position.x >= 0 and position.y >= 120, in every viewport: the lower bound
\* wins over the upper bound when the viewport is too small.
C40_LegacyLowerBounds ==
    \A k \in 1..Len(listMakerLists) :
        /\ listMakerLists[k].x >= 0
        /\ listMakerLists[k].y >= legacyHeaderHeight

\* the viewport shrank to 80x100, where both upper bounds lie below the lower
\* bounds, and the resize listener has fixed a list to (0, 120)
C40_Witness ==
    /\ last.op = "resize"
    /\ viewport = Size(80, 100)
    /\ viewport.width - legacyRightSpace < 0
    /\ viewport.height - legacyBottomSpace < legacyHeaderHeight
    /\ \E k \in 1..Len(listMakerLists) : listMakerLists[k] = Pos(0, legacyHeaderHeight)

====
